---- MODULE Spec2Model ----
(***************************************************************************)
(* Model of the news pipeline: NewsFetcher.fetch (retry, backoff, content  *)
(* validation), LLMNewsParser.parse (clean, bound, one extraction call,    *)
(* output validation) and the batch driver main / process_single_url.      *)
(*                                                                         *)
(* Coroutines run on one asyncio event loop; a task only loses control at  *)
(* an await that really suspends (the HTTP GET, asyncio.sleep, the         *)
(* extraction call).  Every action below runs one task from one such point *)
(* to the next, or a shorter stretch of it.                                *)
(***************************************************************************)
EXTENDS Integers, Sequences, FiniteSets, TLC

VARIABLES
    cfg,                \* self.max_retries, self.backoff_base, self.content_validator, self.max_text_length
    mainpc,             \* position of main()
    http_client,        \* NewsFetcher.client: "none" | "open" | "closed"
    llm_client,         \* LLMNewsParser.client: "none" | "open" | "closed"
    pc,                 \* pc[p]: position of task p
    attempt,            \* fetch local: loop variable `attempt`
    last_error_reason,  \* fetch local: last_error_reason
    fetch_result,       \* what fetch returned or raised
    raw_data,           \* argument of parse
    clean_text,         \* _call_llm parameter clean_text before the bounding step
    sent,               \* text placed in user_prompt
    parse_result,       \* what parse returned or raised
    outcome,            \* branch of process_single_url that ended the task
    last_resp,          \* observation: the transport result of the latest attempt
    llm_out,            \* observation: what the extraction service answered
    trace               \* observation: per task, the operations performed, in order

vars == <<cfg, mainpc, http_client, llm_client, pc, attempt, last_error_reason,
          fetch_result, raw_data, clean_text, sent, parse_result, outcome,
          last_resp, llm_out, trace>>

fetchVars == <<attempt, last_error_reason, fetch_result, last_resp>>
parseVars == <<raw_data, clean_text, sent, parse_result, llm_out>>
mainVars  == <<cfg, mainpc, http_client, llm_client>>

----------------------------------------------------------------------------
(* Bounds of the model *)

MaxRetries == 3         \* max_retries ranges over 0..MaxRetries
MaxBase == 2            \* backoff_base ranges over 1..MaxBase
MaxTextLen == 2         \* max_text_length ranges over 0..MaxTextLen
MaxRawLen == 4          \* raw documents of the text specification have at most this many tokens

(* Program constants *)

NumUrls == 2            \* len(TEST_URLS)
MainMaxRetries == 3     \* main: max_retries=3
MainBackoffBase == 1    \* main: backoff_base=1.0
MainMaxTextLength == 8000   \* main: max_text_length=8000

Tasks == 1..NumUrls
UnitTask == CHOOSE p \in Tasks : \A q \in Tasks : p <= q

----------------------------------------------------------------------------
(* Text.  A document is a sequence of tokens: the characters "a" and "b",  *)
(* the white space characters " ", "\t", "\n", the tag "<p>" (a tag that   *)
(* stays, and separates two text nodes), "<script>" (a whole element or    *)
(* comment that _clean_html removes) and "xFF" (a byte that is not UTF-8). *)

Letters == {"a", "b"}
Blanks == {" ", "\t"}
White == {" ", "\t", "\n"}
Chars == Letters \cup White
Markup == {"<p>", "<script>"}
Tokens == Chars \cup Markup

Min(a, b) == IF a < b THEN a ELSE b

RECURSIVE Pow2(_)
Pow2(n) == IF n <= 0 THEN 1 ELSE 2 * Pow2(n - 1)

(* bytes.decode("utf-8", errors="ignore"): undecodable bytes are dropped *)
Decode(bytes) == SelectSeq(bytes, LAMBDA t : t # "xFF")

(* soup.get_text(separator="\n") after decompose()/extract(): the text     *)
(* nodes are the maximal runs of characters between markup; they are       *)
(* joined with "\n".  t = <<rest of the document, text so far, open node>> *)
JoinNode(acc, node) ==
    IF node = <<>> THEN acc
    ELSE IF acc = <<>> THEN node ELSE acc \o <<"\n">> \o node

GetTextFrom[t \in Seq(Tokens) \X Seq(Chars) \X Seq(Chars)] ==
    IF t[1] = <<>> THEN JoinNode(t[2], t[3])
    ELSE IF Head(t[1]) \in Markup
         THEN GetTextFrom[<<Tail(t[1]), JoinNode(t[2], t[3]), <<>>>>]
         ELSE GetTextFrom[<<Tail(t[1]), t[2], Append(t[3], Head(t[1]))>>]

GetText(doc) == GetTextFrom[<<doc, <<>>, <<>>>>]

(* re.sub(r"[ \t]+", " ", s) *)
CollapseBlanks[s \in Seq(Chars)] ==
    IF s = <<>> THEN <<>>
    ELSE IF Head(s) \in Blanks /\ Len(s) > 1 /\ s[2] \in Blanks
         THEN CollapseBlanks[Tail(s)]
         ELSE <<IF Head(s) \in Blanks THEN " " ELSE Head(s)>> \o CollapseBlanks[Tail(s)]

(* re.sub(r"\n+", "\n", s) *)
CollapseNewlines[s \in Seq(Chars)] ==
    IF s = <<>> THEN <<>>
    ELSE IF Head(s) = "\n" /\ Len(s) > 1 /\ s[2] = "\n"
         THEN CollapseNewlines[Tail(s)]
         ELSE <<Head(s)>> \o CollapseNewlines[Tail(s)]

(* str.strip() *)
LStrip[s \in Seq(Chars)] ==
    IF s # <<>> /\ Head(s) \in White THEN LStrip[Tail(s)] ELSE s

RStrip[s \in Seq(Chars)] ==
    IF s # <<>> /\ s[Len(s)] \in White THEN RStrip[SubSeq(s, 1, Len(s) - 1)] ELSE s

(* A mutation of Strip that leaves the end of the text as it is *)
StripLeftOnly(s) == LStrip[s]

Strip(s) == RStrip[LStrip[s]]

(* _clean_html up to the emptiness test: the cleaned text *)
CleanText(raw) == Strip(CollapseNewlines[CollapseBlanks[GetText(raw)]])

CleanHtmlAcceptsEmpty(raw) == [ok |-> TRUE, text |-> CleanText(raw), step |-> ""]

(* _clean_html: the text, or ParseError("html_clean") when nothing is left *)
CleanHtml(raw) ==
    LET t == CleanText(raw)
    IN IF t = <<>> THEN [ok |-> FALSE, text |-> <<>>, step |-> "html_clean"]
       ELSE [ok |-> TRUE, text |-> t, step |-> ""]

TruncateOneShort(text, max_text_length) ==
    IF Len(text) > max_text_length
    THEN SubSeq(text, 1, max_text_length - 1)
    ELSE text

(* _call_llm, the bounding step: clean_text[:max_text_length] when longer *)
Truncate(text, max_text_length) ==
    IF Len(text) > max_text_length
    THEN SubSeq(text, 1, max_text_length)
    ELSE text

----------------------------------------------------------------------------
(* NewsFetcher.fetch *)

TransportResults == {"2xx", "404", "503", "timeout", "connect", "other"}
Verdicts == {"accept", "reject", "raise"}    \* content_validator returns True, returns False, raises
Bodies == {<<"<script>">>, <<"a", "xFF", " ", " ", "b">>}

Ev(op, n, what) == [op |-> op, n |-> n, what |-> what]

(* What one attempt met: the transport result and, for a 2xx response with *)
(* a validator configured, what the validator did.                         *)
Met(resp, verdict, has_validator) ==
    IF resp = "2xx"
    THEN IF has_validator THEN "2xx_" \o verdict ELSE "2xx"
    ELSE "fail"

(* lines 126-145: the reason an except clause stores in last_error_reason *)
Reason(resp) ==
    CASE resp \in {"404", "503"} -> "http_status_" \o resp
      [] resp = "timeout" -> "timeout"
      [] resp = "connect" -> "connect"
      [] OTHER -> "unknown"

TryAttemptRetryRejected(resp, verdict, has_validator) ==
    IF resp = "2xx" /\ (~has_validator \/ verdict = "accept")
    THEN [kind |-> "return", reason |-> ""]
    ELSE [kind |-> "retry", reason |-> "unknown"]

(* A mutation of TryAttempt where an exception raised by the validator     *)
(* leaves fetch at once instead of reaching the clause of line 141         *)
TryAttemptRaiseSurfaces(resp, verdict, has_validator) ==
    IF resp = "2xx" THEN
        IF has_validator /\ verdict # "accept"
        THEN [kind |-> "raise", reason |-> "content_validation"]
        ELSE [kind |-> "return", reason |-> ""]
    ELSE [kind |-> "retry", reason |-> Reason(resp)]

(* A mutation of TryAttempt without the test of line 113 for a validator:  *)
(* calling the absent validator raises, and the clause of line 141 retries *)
TryAttemptCallsAbsentValidator(resp, verdict, has_validator) ==
    IF resp = "2xx" THEN
        CASE has_validator /\ verdict = "accept" -> [kind |-> "return", reason |-> ""]
          [] has_validator /\ verdict = "reject" -> [kind |-> "raise", reason |-> "content_validation"]
          [] OTHER -> [kind |-> "retry", reason |-> "unknown"]
    ELSE [kind |-> "retry", reason |-> Reason(resp)]

(* lines 94-145: the body of one loop iteration, from the response on.     *)
(* "return": content is returned; "raise": ContentValidationError leaves   *)
(* the loop; "retry": an except clause stored a reason and the loop goes on *)
TryAttempt(resp, verdict, has_validator) ==
    IF resp = "2xx" THEN
        IF has_validator THEN
            CASE verdict = "accept" -> [kind |-> "return", reason |-> ""]
              [] verdict = "reject" -> [kind |-> "raise", reason |-> "content_validation"]
              [] OTHER -> [kind |-> "retry", reason |-> "unknown"]
        ELSE [kind |-> "return", reason |-> ""]
    ELSE [kind |-> "retry", reason |-> Reason(resp)]

InRangeOneMore(j) == j <= cfg.max_retries

(* line 93: for attempt in range(self.max_retries) *)
InRange(j) == j < cfg.max_retries

(* line 148: if attempt < self.max_retries - 1 *)
ShouldBackoff(i) == i < cfg.max_retries - 1

BackoffExponentOff(i) == cfg.backoff_base * Pow2(i + 1)

(* line 149: backoff_time = self.backoff_base * (2 ** attempt) *)
Backoff(i) == cfg.backoff_base * Pow2(i)

NoResult == [kind |-> "none", reason |-> "", content |-> <<>>]
FetchErrorOf(reason) == [kind |-> "FetchError", reason |-> reason, content |-> <<>>]
ValidationErrorOf(reason) ==
    [kind |-> "ContentValidationError", reason |-> reason, content |-> <<>>]
ContentOf(body) == [kind |-> "content", reason |-> "", content |-> body]

(* A mutation of NewReason: the first failure's reason is never overwritten *)
KeepFirstReason(old, new) == IF old = "" THEN new ELSE old

(* last_error_reason = ... in an except clause: lines 127, 132, 137, 142 *)
NewReason(old, new) == new

(* A mutation of LoopNext that keeps the attempt index and the last reason *)
(* on the fetcher (self) instead of in locals of the call: one value for   *)
(* all the calls in flight                                                 *)
LoopNextOnSelf(p, j, reason, tr) ==
    IF InRange(j)
    THEN /\ pc' = [pc EXCEPT ![p] = "http_wait"]
         /\ attempt' = [q \in Tasks |-> j]
         /\ last_error_reason' = [q \in Tasks |-> reason]
         /\ fetch_result' = fetch_result
         /\ trace' = [trace EXCEPT ![p] = Append(tr, Ev("get", j, ""))]
    ELSE /\ pc' = [pc EXCEPT ![p] = "fetch_returned"]
         /\ attempt' = [q \in Tasks |-> 0]
         /\ last_error_reason' = [q \in Tasks |-> ""]
         /\ fetch_result' = [fetch_result EXCEPT ![p] = FetchErrorOf(reason)]
         /\ trace' = [trace EXCEPT ![p] = tr]

(* The loop head for index j: another GET, or lines 155-157 past the loop *)
LoopNext(p, j, reason, tr) ==
    IF InRange(j)
    THEN /\ pc' = [pc EXCEPT ![p] = "http_wait"]
         /\ attempt' = [attempt EXCEPT ![p] = j]
         /\ last_error_reason' = [last_error_reason EXCEPT ![p] = reason]
         /\ fetch_result' = fetch_result
         /\ trace' = [trace EXCEPT ![p] = Append(tr, Ev("get", j, ""))]
    ELSE /\ pc' = [pc EXCEPT ![p] = "fetch_returned"]
         /\ attempt' = [attempt EXCEPT ![p] = 0]
         /\ last_error_reason' = [last_error_reason EXCEPT ![p] = ""]
         /\ fetch_result' = [fetch_result EXCEPT ![p] = FetchErrorOf(reason)]
         /\ trace' = [trace EXCEPT ![p] = tr]

(* fetch is called: lines 91-106, up to the first await *)
FetchCall(p) ==
    /\ pc[p] = "idle"
    /\ LoopNext(p, 0, "", trace[p])
    /\ last_resp' = last_resp
    /\ UNCHANGED <<mainVars, parseVars, outcome>>

(* the GET of the current attempt completes: lines 103-153 *)
HttpResponse(p, resp, verdict, body) ==
    /\ pc[p] = "http_wait"
    /\ last_resp' = [last_resp EXCEPT ![p] = resp]
    /\ LET i == attempt[p]
           o == TryAttempt(resp, verdict, cfg.has_validator)
           r == NewReason(last_error_reason[p], o.reason)
           tr == Append(trace[p], Ev("resp", i, Met(resp, verdict, cfg.has_validator)))
       IN IF o.kind = "retry" THEN
              IF ShouldBackoff(i)
              THEN /\ pc' = [pc EXCEPT ![p] = "sleep_wait"]
                   /\ last_error_reason' = [last_error_reason EXCEPT ![p] = r]
                   /\ trace' = [trace EXCEPT ![p] = Append(tr, Ev("sleep", Backoff(i), r))]
                   /\ UNCHANGED <<attempt, fetch_result>>
              ELSE LoopNext(p, i + 1, r, tr)
          ELSE /\ pc' = [pc EXCEPT ![p] = "fetch_returned"]
               /\ attempt' = [attempt EXCEPT ![p] = 0]
               /\ last_error_reason' = [last_error_reason EXCEPT ![p] = ""]
               /\ fetch_result' = [fetch_result EXCEPT ![p] =
                      IF o.kind = "return" THEN ContentOf(body)
                      ELSE ValidationErrorOf(o.reason)]
               /\ trace' = [trace EXCEPT ![p] = tr]
    /\ UNCHANGED <<mainVars, parseVars, outcome>>

(* asyncio.sleep(backoff_time) is over: line 153, then the loop head *)
SleepDone(p) ==
    /\ pc[p] = "sleep_wait"
    /\ LoopNext(p, attempt[p] + 1, last_error_reason[p], trace[p])
    /\ last_resp' = last_resp
    /\ UNCHANGED <<mainVars, parseVars, outcome>>

----------------------------------------------------------------------------
(* LLMNewsParser: the extraction service's answer and its validation *)

RequiredFields == {"title", "content", "publish_time", "author"}
AllFields == RequiredFields \cup {"summary"}

(* A JSON value.  An object maps every field name to "absent", "null" or   *)
(* "str" (a string value).  For an array or a string, f[n] = "str" says    *)
(* that it contains the name n (as an element, as a substring).            *)
Objects == [AllFields -> {"absent", "null", "str"}]
Containers == [AllFields -> {"absent", "str"}]
EmptyObject == [n \in AllFields |-> "absent"]

LLMOut(api, text, kind, f) == [api |-> api, text |-> text, kind |-> kind, f |-> f]

(* What client.chat.completions.create does: raises, or answers with       *)
(* message.content None, "", blanks, text that is no JSON, a JSON value,   *)
(* a JSON object inside a Markdown fence or inside prose.                  *)
ApiFailures == {"timeout", "connect", "api_error", "other"}
LLMOutputs ==
    {LLMOut(a, "None", "null", EmptyObject) : a \in ApiFailures}
    \cup {LLMOut("ok", t, "null", EmptyObject) : t \in {"None", "empty", "blank", "garbage"}}
    \cup {LLMOut("ok", "json", "object", f) : f \in Objects}
    \cup {LLMOut("ok", "json", k, f) : k \in {"array", "string"}, f \in Containers}
    \cup {LLMOut("ok", "json", k, EmptyObject) : k \in {"number", "bool", "null"}}
    \cup {LLMOut("ok", t, "object", f) : t \in {"fenced", "prose"},
              f \in {g \in Objects : g["summary"] = "absent"}}

NoLLMOut == LLMOut("none", "None", "null", EmptyObject)

ParseErrorOf(step) == [kind |-> "ParseError", step |-> step, value |-> EmptyObject]
RecordOf(f) == [kind |-> "record", step |-> "", value |-> f]
NoParseResult == [kind |-> "none", step |-> "", value |-> EmptyObject]

(* A mutation of CallLlmExcept without the clause of line 186: what the  *)
(* named clauses do not catch leaves _call_llm as it was raised           *)
CallLlmExceptNoCatchAll(exc) ==
    IF exc \in {"APITimeoutError", "APIConnectionError", "APIError"}
    THEN ParseErrorOf("llm_request")
    ELSE [kind |-> exc, step |-> "", value |-> EmptyObject]

(* lines 178-187: the except clauses of _call_llm *)
CallLlmExcept(exc) ==
    CASE exc = "APITimeoutError" -> ParseErrorOf("llm_request")
      [] exc = "APIConnectionError" -> ParseErrorOf("llm_request")
      [] exc = "APIError" -> ParseErrorOf("llm_request")
      [] OTHER -> ParseErrorOf("llm_request")     \* except Exception

(* line 134: the exception the call raises *)
ApiException(api) ==
    CASE api = "timeout" -> "APITimeoutError"
      [] api = "connect" -> "APIConnectionError"
      [] api = "api_error" -> "APIError"
      [] OTHER -> "Exception"

(* lines 155-159: the handler of json.JSONDecodeError builds its message   *)
(* from clean_json_str, a name _call_llm never binds: building the message *)
(* raises NameError, which the clause of line 186 turns into llm_request.  *)
CleanJsonStrBound == FALSE
OnDecodeError ==
    IF CleanJsonStrBound THEN ParseErrorOf("json_parse") ELSE CallLlmExcept("NameError")

(* line 154: json.loads decodes JSON text and nothing else *)
JsonLoads(out) ==
    IF out.text = "json"
    THEN [ok |-> TRUE, kind |-> out.kind, f |-> out.f]
    ELSE [ok |-> FALSE, kind |-> "null", f |-> EmptyObject]

(* line 163: [f for f in required_fields if f not in structured_data] *)
MissingFields(f) == {n \in RequiredFields : f[n] = "absent"}

CheckDecodedNotNewsFirst(kind, f) ==
    IF kind = "object" /\ f["title"] \in {"null", "absent"} /\ f["content"] \in {"null", "absent"}
    THEN ParseErrorOf("not_news")
    ELSE IF MissingFields(f) # {} THEN ParseErrorOf("json_parse")
    ELSE IF kind = "object" THEN RecordOf(f) ELSE ParseErrorOf("llm_request")

CheckDecodedAllNull(kind, f) ==
    IF kind # "object" THEN ParseErrorOf("llm_request")
    ELSE IF MissingFields(f) # {} THEN ParseErrorOf("json_parse")
    ELSE IF \A n \in RequiredFields : f[n] = "null" THEN ParseErrorOf("not_news")
    ELSE RecordOf(f)

(* lines 161-176: the checks on the decoded value *)
CheckDecoded(kind, f) ==
    CASE kind \in {"number", "bool", "null"} ->
             CallLlmExcept("TypeError")           \* `in` on a value that is no container
      [] kind \in {"array", "string"} ->
             IF MissingFields(f) # {} THEN ParseErrorOf("json_parse")
             ELSE CallLlmExcept("AttributeError")     \* no .get on a list or str
      [] OTHER ->
             IF MissingFields(f) # {} THEN ParseErrorOf("json_parse")
             ELSE IF f["title"] = "null" /\ f["content"] = "null"
                  THEN ParseErrorOf("not_news")
                  ELSE RecordOf(f)

(* A mutation of EmptyOutput that tests the answer as it came, before strip() *)
EmptyOutputNoStrip(text) == text = "empty"

(* lines 145-146: llm_output = ...content.strip(), then `if not llm_output` *)
EmptyOutput(text) == text \in {"empty", "blank"}

(* lines 134-187: _call_llm from the service's answer on *)
CallLlmResult(out) ==
    IF out.api # "ok" THEN CallLlmExcept(ApiException(out.api))
    ELSE IF out.text = "None" THEN CallLlmExcept("AttributeError")   \* None.strip()
    ELSE IF EmptyOutput(out.text) THEN ParseErrorOf("llm_request")
    ELSE LET d == JsonLoads(out)
         IN IF ~d.ok THEN OnDecodeError ELSE CheckDecoded(d.kind, d.f)

(* _clean_llm_json: lines 91-105; the fenced block, else the outermost braces.
   No line of parse or _call_llm calls it. *)
CleanLlmJson(out) ==
    IF out.text \in {"fenced", "prose"} /\ out.kind = "object"
    THEN [out EXCEPT !.text = "json"]
    ELSE out

(* The except clauses of parse: lines 202-208 *)
ParseExcept(r) ==
    IF r.kind \in {"record", "ParseError"} THEN r ELSE ParseErrorOf("unknown")

(* parse is called: lines 191-198 and 113-134, up to the await of the call *)
ParseCall(p) ==
    /\ pc[p] = "parse_call"
    /\ LET c == CleanHtml(raw_data[p])
           tr == Append(trace[p], Ev("clean", 0, ""))
       IN IF c.ok
          THEN /\ clean_text' = [clean_text EXCEPT ![p] = c.text]
               /\ sent' = [sent EXCEPT ![p] = Truncate(c.text, cfg.max_text_length)]
               /\ trace' = [trace EXCEPT ![p] =
                      tr \o <<Ev("bound", 0, ""), Ev("call", 0, "")>>]
               /\ pc' = [pc EXCEPT ![p] = "llm_wait"]
               /\ UNCHANGED parse_result
          ELSE /\ parse_result' = [parse_result EXCEPT ![p] = ParseErrorOf(c.step)]
               /\ trace' = [trace EXCEPT ![p] = tr]
               /\ pc' = [pc EXCEPT ![p] = "parse_returned"]
               /\ UNCHANGED <<clean_text, sent>>
    /\ UNCHANGED <<mainVars, fetchVars, raw_data, llm_out, outcome>>

(* the extraction call completes: lines 134-187, then lines 200-208 *)
LLMResponse(p, out) ==
    /\ pc[p] = "llm_wait"
    /\ llm_out' = [llm_out EXCEPT ![p] = out]
    /\ parse_result' = [parse_result EXCEPT ![p] = ParseExcept(CallLlmResult(out))]
    /\ trace' = [trace EXCEPT ![p] =
           IF out.api = "ok" /\ out.text # "None"
           THEN Append(trace[p], Ev("validate", 0,
                    IF EmptyOutput(out.text) THEN "empty" ELSE "loads"))
           ELSE trace[p]]
    /\ pc' = [pc EXCEPT ![p] = "parse_returned"]
    /\ UNCHANGED <<mainVars, fetchVars, raw_data, clean_text, sent, outcome>>

----------------------------------------------------------------------------
(* One fetch call on a fetcher of any configuration (test_news_fetcher) *)

FetchConfigs ==
    [max_retries : 0..MaxRetries, backoff_base : 1..MaxBase,
     has_validator : BOOLEAN, max_text_length : {MaxTextLen}]

TaskInit ==
    /\ pc = [p \in Tasks |-> "idle"]
    /\ attempt = [p \in Tasks |-> 0]
    /\ last_error_reason = [p \in Tasks |-> ""]
    /\ fetch_result = [p \in Tasks |-> NoResult]
    /\ raw_data = [p \in Tasks |-> <<>>]
    /\ clean_text = [p \in Tasks |-> <<>>]
    /\ sent = [p \in Tasks |-> <<>>]
    /\ parse_result = [p \in Tasks |-> NoParseResult]
    /\ outcome = [p \in Tasks |-> "none"]
    /\ last_resp = [p \in Tasks |-> "none"]
    /\ llm_out = [p \in Tasks |-> NoLLMOut]
    /\ trace = [p \in Tasks |-> <<>>]

InitFetch ==
    /\ cfg \in FetchConfigs
    /\ mainpc = "unit"
    /\ http_client = "open"
    /\ llm_client = "none"
    /\ TaskInit

NextFetch ==
    \/ FetchCall(UnitTask)
    \/ \E resp \in TransportResults, verdict \in Verdicts, body \in Bodies :
           HttpResponse(UnitTask, resp, verdict, body)
    \/ SleepDone(UnitTask)

SpecFetch == InitFetch /\ [][NextFetch]_vars

----------------------------------------------------------------------------
(* One parse call on a parser of any max_text_length (test_llm_news_parser) *)

RawPages ==
    {<<>>, <<"<script>">>, <<"a">>, <<"a", " ", " ", "b">>,
     <<"a", "<p>", "\n", "\n", "<p>", "b", "a">>}

ParseConfigs ==
    [max_retries : {MainMaxRetries}, backoff_base : {MainBackoffBase},
     has_validator : {TRUE}, max_text_length : 0..MaxTextLen]

InitParseWith(docs) ==
    /\ cfg \in ParseConfigs
    /\ mainpc = "unit"
    /\ http_client = "none"
    /\ llm_client = "open"
    /\ pc = [p \in Tasks |-> IF p = UnitTask THEN "parse_call" ELSE "idle"]
    /\ attempt = [p \in Tasks |-> 0]
    /\ last_error_reason = [p \in Tasks |-> ""]
    /\ fetch_result = [p \in Tasks |-> NoResult]
    /\ \E doc \in docs : raw_data = [p \in Tasks |-> IF p = UnitTask THEN doc ELSE <<>>]
    /\ clean_text = [p \in Tasks |-> <<>>]
    /\ sent = [p \in Tasks |-> <<>>]
    /\ parse_result = [p \in Tasks |-> NoParseResult]
    /\ outcome = [p \in Tasks |-> "none"]
    /\ last_resp = [p \in Tasks |-> "none"]
    /\ llm_out = [p \in Tasks |-> NoLLMOut]
    /\ trace = [p \in Tasks |-> <<>>]

InitParse == InitParseWith(RawPages)

NextParse ==
    \/ ParseCall(UnitTask)
    \/ \E out \in LLMOutputs : LLMResponse(UnitTask, out)

SpecParse == InitParse /\ [][NextParse]_vars

(* The text steps of parse on every document of at most MaxRawLen tokens *)

RECURSIVE SeqsUpTo(_, _)
SeqsUpTo(S, n) ==
    IF n = 0 THEN {<<>>}
    ELSE LET shorter == SeqsUpTo(S, n - 1)
         IN shorter \cup {Append(q, t) : q \in {r \in shorter : Len(r) = n - 1}, t \in S}

InitText == InitParseWith(SeqsUpTo(Tokens, MaxRawLen))

NextText == ParseCall(UnitTask)

SpecText == InitText /\ [][NextText]_vars

----------------------------------------------------------------------------
(* process_single_url and main *)

ExceptClauseNoCatchAll(exc) ==
    CASE exc \in {"FetchError", "ContentValidationError"} -> "fetch_failed"
      [] exc = "ParseError" -> "parse_failed"
      [] OTHER -> "escape"

(* lines 59-67: the except clauses of process_single_url.                  *)
(* ContentValidationError is a FetchError.  "escape" would be an exception *)
(* that leaves the coroutine; the clause of line 65 leaves none.           *)
ExceptClause(exc) ==
    CASE exc \in {"FetchError", "ContentValidationError"} -> "fetch_failed"
      [] exc = "ParseError" -> "parse_failed"
      [] OTHER -> "unexpected"

TaskEnd(o) == IF o = "escape" THEN "raised" ELSE "done"

(* fetch has returned or raised: lines 49-53 or 59-61, 68-69 *)
HandleFetch(p) ==
    /\ pc[p] = "fetch_returned"
    /\ IF fetch_result[p].kind = "content"
       THEN /\ raw_data' = [raw_data EXCEPT ![p] = Decode(fetch_result[p].content)]
            /\ pc' = [pc EXCEPT ![p] = "parse_call"]
            /\ UNCHANGED outcome
       ELSE LET o == ExceptClause(fetch_result[p].kind)
            IN /\ outcome' = [outcome EXCEPT ![p] = o]
               /\ pc' = [pc EXCEPT ![p] = TaskEnd(o)]
               /\ UNCHANGED raw_data
    /\ UNCHANGED <<mainVars, fetchVars, clean_text, sent, parse_result, llm_out, trace>>

(* parse has returned or raised: lines 53-57 or 62-69.  print can raise    *)
(* (an encoding stdout cannot take, a closed pipe): print_ok = FALSE.      *)
HandleParse(p, print_ok) ==
    /\ pc[p] = "parse_returned"
    /\ LET o == IF parse_result[p].kind = "record"
                THEN IF print_ok THEN "record" ELSE ExceptClause("OSError")
                ELSE ExceptClause("ParseError")
       IN /\ outcome' = [outcome EXCEPT ![p] = o]
          /\ pc' = [pc EXCEPT ![p] = TaskEnd(o)]
    /\ UNCHANGED <<mainVars, fetchVars, parseVars, trace>>

(* lines 74-95: both clients are built, then the tasks are created *)
MainStart ==
    /\ mainpc = "start"
    /\ llm_client' = "open"
    /\ http_client' = "open"
    /\ mainpc' = "gather"
    /\ UNCHANGED <<cfg, pc, fetchVars, parseVars, outcome, trace>>

(* line 95/99: a task created by gather starts to run *)
ProcessStart(p) ==
    /\ mainpc = "gather"
    /\ FetchCall(p)

(* line 99: asyncio.gather is called with return_exceptions=True *)
ReturnExceptions == TRUE

Ended(p) == pc[p] \in {"done", "raised"}

(* gather returns when every task has ended; without return_exceptions it  *)
(* raises as soon as one task has raised                                   *)
GatherReturns ==
    IF ReturnExceptions THEN \A p \in Tasks : Ended(p)
    ELSE (\A p \in Tasks : Ended(p)) \/ (\E p \in Tasks : pc[p] = "raised")

(* lines 99-102 and __aexit__ (Fetcher line 75): gather is over, the async *)
(* with block is left and the HTTP client is closed; parser.close is not   *)
(* called.  asyncio.run cancels the tasks that have not ended.             *)
MainExit ==
    /\ mainpc = "gather"
    /\ GatherReturns
    /\ http_client' = "closed"
    /\ mainpc' = IF \A p \in Tasks : pc[p] # "raised" \/ ReturnExceptions
                 THEN "exited" ELSE "aborted"
    /\ pc' = [p \in Tasks |-> IF Ended(p) THEN pc[p] ELSE "cancelled"]
    /\ UNCHANGED <<cfg, llm_client, fetchVars, parseVars, outcome, trace>>

(* the inputs of a batch run: some of each kind *)
BatchTransport == {"2xx", "503", "timeout"}
BatchOutputs ==
    {LLMOut("timeout", "None", "null", EmptyObject),
     LLMOut("ok", "json", "object", [n \in AllFields |-> IF n = "summary" THEN "absent" ELSE "null"]),
     LLMOut("ok", "json", "object",
            [n \in AllFields |-> IF n \in {"title", "content"} THEN "str"
                                 ELSE IF n = "summary" THEN "absent" ELSE "null"])}

MainConfig ==
    [max_retries |-> MainMaxRetries, backoff_base |-> MainBackoffBase,
     has_validator |-> TRUE, max_text_length |-> MainMaxTextLength]

Init ==
    /\ cfg = MainConfig
    /\ mainpc = "start"
    /\ http_client = "none"
    /\ llm_client = "none"
    /\ TaskInit

TaskStep(p) ==
    \/ ProcessStart(p)
    \/ \E resp \in BatchTransport, verdict \in Verdicts, body \in Bodies :
           HttpResponse(p, resp, verdict, body)
    \/ SleepDone(p)
    \/ HandleFetch(p)
    \/ ParseCall(p)
    \/ \E out \in BatchOutputs : LLMResponse(p, out)
    \/ \E print_ok \in BOOLEAN : HandleParse(p, print_ok)

Next ==
    \/ MainStart
    \/ \E p \in Tasks : TaskStep(p)
    \/ MainExit

Spec == Init /\ [][Next]_vars

(* The event loop runs every task that can run, and every await ends: the  *)
(* GET and the extraction call by their timeouts, the sleep by its delay.  *)
FairSpec ==
    /\ Spec
    /\ \A p \in Tasks : WF_vars(TaskStep(p))
    /\ WF_vars(MainStart)
    /\ WF_vars(MainExit)

----------------------------------------------------------------------------
(* Properties of fetch, checked under SpecFetch *)

Count(tr, op) == Len(SelectSeq(tr, LAMBDA e : e.op = op))
Resps(tr) == SelectSeq(tr, LAMBDA e : e.op = "resp")
Sleeps(tr) == SelectSeq(tr, LAMBDA e : e.op = "sleep")
AllFailed(tr) == \A k \in 1..Len(Resps(tr)) : Resps(tr)[k].what = "fail"

(* C1: with max_retries = N >= 1 and every attempt failing retryably, the  *)
(* transport is attempted exactly N times, never more, and the N-th        *)
(* failure ends the call in FetchError.                                    *)
C1_ExactlyNAttempts ==
    \A p \in Tasks :
        (cfg.max_retries >= 1 /\ AllFailed(trace[p])) =>
            /\ Count(trace[p], "get") <= cfg.max_retries
            /\ (Len(Resps(trace[p])) = cfg.max_retries =>
                    /\ pc[p] = "fetch_returned"
                    /\ fetch_result[p].kind = "FetchError")
            /\ (fetch_result[p].kind # "none" =>
                    /\ fetch_result[p].kind = "FetchError"
                    /\ Count(trace[p], "get") = cfg.max_retries
                    /\ Len(Resps(trace[p])) = cfg.max_retries)

C1_Witness ==
    /\ cfg.max_retries >= 3
    /\ fetch_result[UnitTask].kind = "FetchError"
    /\ Count(trace[UnitTask], "get") = cfg.max_retries

(* C2: the first sleep lasts base_delay and every later one twice the one  *)
(* before it (so the sleep before attempt i lasts base_delay * 2^(i-1) and *)
(* the delays increase strictly); every attempt after the first comes      *)
(* right after exactly one sleep, which comes right after a failed         *)
(* attempt; no sleep follows the failure of attempt max_retries - 1.       *)
C2_BackoffSchedule ==
    \A p \in Tasks :
        LET tr == trace[p]
            sl == Sleeps(tr)
        IN /\ \A j \in 1..Len(sl) :
                  /\ j = 1 => sl[j].n = cfg.backoff_base
                  /\ j > 1 => (sl[j].n = 2 * sl[j - 1].n /\ sl[j].n > sl[j - 1].n)
           /\ \A k \in 1..Len(tr) :
                  /\ (tr[k].op = "get" /\ tr[k].n >= 1) =>
                         /\ k >= 3
                         /\ tr[k - 1].op = "sleep"
                         /\ tr[k - 2].op = "resp" /\ tr[k - 2].n = tr[k].n - 1
                         /\ Count(SubSeq(tr, 1, k), "sleep") = tr[k].n
                  /\ tr[k].op = "sleep" =>
                         /\ k >= 2
                         /\ tr[k - 1].op = "resp" /\ tr[k - 1].what \in {"fail", "2xx_raise"}
                         /\ tr[k - 1].n < cfg.max_retries - 1
                         /\ k < Len(tr) => (tr[k + 1].op = "get" /\ tr[k + 1].n = tr[k - 1].n + 1)
                  /\ (tr[k].op = "resp" /\ tr[k].n = cfg.max_retries - 1) => k = Len(tr)

C2_Witness ==
    /\ fetch_result[UnitTask].kind = "FetchError"
    /\ Len(Sleeps(trace[UnitTask])) >= 2
    /\ cfg.backoff_base >= 2

(* C3: an attempt whose 2xx response the validator rejects is the last     *)
(* thing the call does: no further GET, no sleep, and the call ends in     *)
(* ContentValidationError after (attempt index + 1) GETs.                  *)
C3_RejectionShortCircuits ==
    \A p \in Tasks :
        \A k \in 1..Len(trace[p]) :
            (trace[p][k].op = "resp" /\ trace[p][k].what = "2xx_reject") =>
                /\ k = Len(trace[p])
                /\ pc[p] = "fetch_returned"
                /\ fetch_result[p].kind = "ContentValidationError"
                /\ Count(trace[p], "get") = trace[p][k].n + 1
                /\ Count(trace[p], "sleep") = trace[p][k].n

C3_Witness ==
    /\ cfg.max_retries >= 3
    /\ fetch_result[UnitTask].kind = "ContentValidationError"
    /\ Count(trace[UnitTask], "get") = 1

----------------------------------------------------------------------------
(* Properties of the batch run, checked under Spec *)

TaskState(p) ==
    <<pc[p], attempt[p], last_error_reason[p], fetch_result[p], raw_data[p],
      clean_text[p], sent[p], parse_result[p], outcome[p], last_resp[p],
      llm_out[p], trace[p]>>

OwnOutcome(p) ==
    /\ outcome[p] \in {"record", "fetch_failed", "parse_failed", "unexpected"}
    /\ outcome[p] = "fetch_failed" =>
           fetch_result[p].kind \in {"FetchError", "ContentValidationError"}
    /\ outcome[p] = "parse_failed" => parse_result[p].kind = "ParseError"
    /\ outcome[p] \in {"record", "unexpected"} => parse_result[p].kind = "record"

C4_State ==
    /\ mainpc # "aborted"
    /\ \A p \in Tasks :
           /\ pc[p] \notin {"cancelled", "raised"}
           /\ Ended(p) => OwnOutcome(p)
           /\ mainpc = "exited" => pc[p] = "done"

C4_Step ==
    \A p \in Tasks :
        /\ Ended(p) => TaskState(p)' = TaskState(p)
        /\ TaskState(p)' # TaskState(p) =>
               \A q \in Tasks \ {p} : TaskState(q)' = TaskState(q)

(* C4: no pipeline is ever cancelled and the batch never aborts; whatever  *)
(* its siblings did, a pipeline that has not ended can take its next step; *)
(* a step of one pipeline changes nothing of another; a pipeline ends with *)
(* the outcome its own fetch and parse results give, and keeps it; main    *)
(* leaves gather only when every pipeline has ended.                       *)
C4_FailureIsolation ==
    /\ [](C4_State)
    /\ [][C4_Step]_vars
    /\ <>(mainpc = "exited" /\ \A p \in Tasks : pc[p] = "done")

C4_Witness ==
    /\ mainpc = "exited"
    /\ \E p, q \in Tasks :
           /\ outcome[p] = "unexpected"
           /\ outcome[q] = "record"

----------------------------------------------------------------------------
(* Properties of parse, checked under SpecParse and SpecText *)

HasLetter(doc) == \E k \in 1..Len(doc) : doc[k] \in Letters
Ops(tr) == [k \in 1..Len(tr) |-> tr[k].op]
IsPrefix(a, b) == Len(a) <= Len(b) /\ \A k \in 1..Len(a) : a[k] = b[k]
AfterClean(p) == pc[p] \in {"llm_wait", "parse_returned"}
Answered(p) == pc[p] = "parse_returned" /\ llm_out[p].api = "ok"

(* C5: a non-empty answer that is no JSON makes parse fail with stage      *)
(* json_parse.                                                             *)
C5_DecodeFailureIsJsonParse ==
    \A p \in Tasks :
        (Answered(p) /\ llm_out[p].text = "garbage") =>
            /\ parse_result[p].kind = "ParseError"
            /\ parse_result[p].step = "json_parse"

(* C6: an answer that decodes to an object lacking at least one of the     *)
(* four required fields makes parse fail with stage json_parse, also when  *)
(* title and content are null or absent: never not_news, never a record.   *)
C6_MissingFieldIsJsonParse ==
    \A p \in Tasks :
        (/\ Answered(p)
         /\ llm_out[p].text = "json" /\ llm_out[p].kind = "object"
         /\ \E n \in RequiredFields : llm_out[p].f[n] = "absent") =>
            /\ parse_result[p].kind = "ParseError"
            /\ parse_result[p].step = "json_parse"

C6_Witness ==
    /\ Answered(UnitTask)
    /\ llm_out[UnitTask].text = "json" /\ llm_out[UnitTask].kind = "object"
    /\ llm_out[UnitTask].f["author"] = "absent"
    /\ llm_out[UnitTask].f["title"] = "null"
    /\ llm_out[UnitTask].f["content"] = "null"
    /\ llm_out[UnitTask].f["publish_time"] = "str"
    /\ parse_result[UnitTask].step = "json_parse"

(* C7: an answer that decodes to an object with all four fields, title and *)
(* content null, makes parse fail with stage not_news whatever             *)
(* publish_time and author are; no returned record has both title and      *)
(* content null.                                                           *)
C7_BothNullIsNotNews ==
    \A p \in Tasks :
        /\ (/\ Answered(p)
            /\ llm_out[p].text = "json" /\ llm_out[p].kind = "object"
            /\ \A n \in RequiredFields : llm_out[p].f[n] # "absent"
            /\ llm_out[p].f["title"] = "null" /\ llm_out[p].f["content"] = "null") =>
               /\ parse_result[p].kind = "ParseError"
               /\ parse_result[p].step = "not_news"
        /\ parse_result[p].kind = "record" =>
               ~(parse_result[p].value["title"] = "null"
                 /\ parse_result[p].value["content"] = "null")

C7_Witness ==
    /\ Answered(UnitTask)
    /\ llm_out[UnitTask].f["title"] = "null" /\ llm_out[UnitTask].f["content"] = "null"
    /\ llm_out[UnitTask].f["publish_time"] = "str" /\ llm_out[UnitTask].f["author"] = "str"
    /\ parse_result[UnitTask].step = "not_news"

(* C8: the text handed to the service is the cleaned text when that has at *)
(* most max_text_length characters and its first max_text_length           *)
(* characters otherwise; parse fails before the call only when cleaning    *)
(* left nothing, never in the bounding step.                               *)
C8_BoundIsPrefix ==
    \A p \in Tasks :
        /\ pc[p] = "llm_wait" =>
               /\ clean_text[p] # <<>>
               /\ Len(sent[p]) = Min(Len(clean_text[p]), cfg.max_text_length)
               /\ IsPrefix(sent[p], clean_text[p])
        /\ pc[p] = "parse_returned" =>
               /\ ~HasLetter(raw_data[p])
               /\ parse_result[p].step = "html_clean"
        /\ (HasLetter(raw_data[p]) /\ AfterClean(p)) => pc[p] = "llm_wait"

C8_Witness ==
    /\ pc[UnitTask] = "llm_wait"
    /\ cfg.max_text_length >= 1
    /\ Len(clean_text[UnitTask]) > cfg.max_text_length
    /\ Len(sent[UnitTask]) = cfg.max_text_length

(* C9: a returned record is the decoded object, has the four fields and    *)
(* no other.                                                               *)
C9_ExactlyFourFields ==
    \A p \in Tasks :
        parse_result[p].kind = "record" =>
            /\ parse_result[p].value = llm_out[p].f
            /\ \A n \in AllFields :
                   parse_result[p].value[n] # "absent" <=> n \in RequiredFields

(* C10: the steps of one parse run in the order clean, bound, call,        *)
(* validate; the service is called once when the document has text and    *)
(* not at all when cleaning leaves nothing (stage html_clean); a failed    *)
(* call gives stage llm_request and ends parse with no second call.        *)
C10_OneCallInOrder ==
    \A p \in Tasks :
        /\ IsPrefix(Ops(trace[p]), <<"clean", "bound", "call", "validate">>)
        /\ (HasLetter(raw_data[p]) /\ AfterClean(p)) =>
               Count(trace[p], "call") = 1
        /\ (~HasLetter(raw_data[p]) /\ AfterClean(p)) =>
               /\ Count(trace[p], "call") = 0
               /\ pc[p] = "parse_returned"
               /\ parse_result[p] = ParseErrorOf("html_clean")
        /\ llm_out[p].api \in ApiFailures =>
               /\ pc[p] = "parse_returned"
               /\ parse_result[p] = ParseErrorOf("llm_request")
               /\ Ops(trace[p]) = <<"clean", "bound", "call">>

C10_Witness ==
    /\ llm_out[UnitTask].api = "timeout"
    /\ parse_result[UnitTask].step = "llm_request"
    /\ Count(trace[UnitTask], "call") = 1

----------------------------------------------------------------------------
(* The exceptions of _call_llm that are none of the classified failures:   *)
(* message.content is None (None.strip() raises AttributeError, line 145)  *)
Unclassified(out) == out.api = "ok" /\ out.text = "None"

Stages == {"html_clean", "llm_request", "json_parse", "not_news", "unknown"}

TwoOutcomes(p) ==
    \/ parse_result[p].kind = "record" /\ parse_result[p].step = ""
    \/ parse_result[p].kind = "ParseError" /\ parse_result[p].step \in Stages

(* C11 as amended: every parse call ends in a record or in a ParseError    *)
(* whose step is one of the five stages, nothing else reaches the caller,  *)
(* and an exception raised in the try block of _call_llm that no named     *)
(* clause classifies is reported with step llm_request.                    *)
C11_UnclassifiedIsLlmRequest ==
    \A p \in Tasks :
        /\ parse_result[p].kind \in {"none", "record", "ParseError"}
        /\ pc[p] = "parse_returned" =>
               /\ TwoOutcomes(p)
               /\ Answered(p) /\ Unclassified(llm_out[p]) =>
                      parse_result[p] = ParseErrorOf("llm_request")

C11_Witness ==
    \E p \in Tasks :
        /\ pc[p] = "parse_returned"
        /\ Answered(p) /\ Unclassified(llm_out[p])
        /\ parse_result[p].kind = "ParseError"

(* C11 as stated: every extract call ends in a record or in a ParseFailure *)
(* of one of the five stages, and an exception that is none of the         *)
(* classified cases is reported with stage unknown.                        *)
C11_UnclassifiedIsUnknown ==
    \A p \in Tasks :
        pc[p] = "parse_returned" =>
            /\ TwoOutcomes(p)
            /\ Answered(p) /\ Unclassified(llm_out[p]) =>
                   parse_result[p] = ParseErrorOf("unknown")

Running(p) == pc[p] \notin {"idle", "done", "raised", "cancelled"}

(* C12: both shared clients are constructed before any pipeline starts,    *)
(* neither is closed while a pipeline is still running, and both are       *)
(* closed once main has left, on every exit path.                          *)
C12_ClientsLifecycle ==
    /\ (\E p \in Tasks : pc[p] # "idle") =>
           http_client # "none" /\ llm_client # "none"
    /\ (\E p \in Tasks : Running(p)) =>
           http_client = "open" /\ llm_client = "open"
    /\ mainpc \in {"exited", "aborted"} =>
           http_client = "closed" /\ llm_client = "closed"

Wrapped(out) == out.api = "ok" /\ out.text \in {"fenced", "prose"} /\ out.kind = "object"

(* C13: when the answer is a well-formed object of the four fields wrapped *)
(* in a Markdown fence or in prose, parse extracts the object before       *)
(* decoding and returns the embedded record, or fails with the stage the   *)
(* embedded object earns (not_news, json_parse for a missing field).       *)
C13_FallbackExtraction ==
    \A p \in Tasks :
        (Answered(p) /\ Wrapped(llm_out[p])) =>
            /\ parse_result[p] = CallLlmResult(CleanLlmJson(llm_out[p]))
            /\ (MissingFields(llm_out[p].f) = {}
                /\ ~(llm_out[p].f["title"] = "null" /\ llm_out[p].f["content"] = "null"))
               => parse_result[p] = RecordOf(llm_out[p].f)

----------------------------------------------------------------------------
(* C14 as amended: of all the ways an attempt can fail, only the rejection *)
(* of a 2xx body by the validator ends the call at once.  An exception     *)
(* raised by the validator itself is retried like a transport failure:     *)
(* a sleep and the next GET follow while attempts remain, and after the    *)
(* last attempt the call ends in FetchError with the generic reason.       *)
C14_OnlyRejectionSurfaces ==
    \A p \in Tasks :
        LET tr == trace[p]
        IN \A k \in 1..Len(tr) :
               /\ (tr[k].op = "resp" /\ tr[k].what = "2xx_reject") =>
                      k = Len(tr) /\ fetch_result[p].kind = "ContentValidationError"
               /\ (tr[k].op = "resp" /\ tr[k].what \in {"2xx_raise", "fail"}) =>
                      IF tr[k].n < cfg.max_retries - 1
                      THEN /\ k < Len(tr)
                           /\ tr[k + 1].op = "sleep"
                           /\ tr[k + 1].what = (IF tr[k].what = "2xx_raise"
                                                THEN "unknown" ELSE tr[k + 1].what)
                           /\ pc[p] = "sleep_wait" \/ (k + 1 < Len(tr) /\ tr[k + 2].op = "get")
                      ELSE /\ k = Len(tr)
                           /\ fetch_result[p].kind = "FetchError"
                           /\ tr[k].what = "2xx_raise" => fetch_result[p].reason = "unknown"

C14_Witness ==
    LET tr == trace[UnitTask]
    IN /\ Len(tr) >= 4
       /\ tr[2].op = "resp" /\ tr[2].what = "2xx_raise"
       /\ tr[3].op = "sleep"
       /\ tr[4].op = "get" /\ tr[4].n = 1

(* C14 as stated: only transport failures lead to another attempt; a       *)
(* rejection by the validator and an exception raised during the attempt   *)
(* (the validator raising) both end the call at once, with no further      *)
(* attempt and no sleep.                                                   *)
C14_OnlyTransportRetries ==
    \A p \in Tasks :
        \A k \in 1..Len(trace[p]) :
            (trace[p][k].op = "resp" /\ trace[p][k].what \in {"2xx_reject", "2xx_raise"}) =>
                /\ k = Len(trace[p])
                /\ pc[p] = "fetch_returned"
                /\ fetch_result[p].kind \notin {"none", "content"}

----------------------------------------------------------------------------
Accepted(e) == e.op = "resp" /\ e.what \in {"2xx", "2xx_accept"}
Retried(e) == e.op = "resp" /\ e.what \in {"fail", "2xx_raise"}

C15_State ==
    \A p \in Tasks :
        LET tr == trace[p]
            rs == Resps(tr)
        IN /\ fetch_result[p].kind = "content" <=> \E k \in 1..Len(rs) : Accepted(rs[k])
           /\ \A k \in 1..Len(rs) :
                  Accepted(rs[k]) =>
                      /\ k = Len(rs) /\ k <= cfg.max_retries /\ rs[k].n = k - 1
                      /\ \A j \in 1..(k - 1) : Retried(rs[j])
                      /\ tr[Len(tr)] = rs[k]
                      /\ pc[p] = "fetch_returned"
                      /\ Count(tr, "get") = k /\ Count(tr, "sleep") = k - 1
           /\ (~cfg.has_validator /\ last_resp[p] = "2xx") =>
                  fetch_result[p].kind = "content"

C15_Step ==
    \A p \in Tasks :
        (fetch_result[p].kind = "none" /\ fetch_result'[p].kind = "content") =>
            \E verdict \in Verdicts :
                HttpResponse(p, "2xx", verdict, fetch_result'[p].content)

(* C15: fetch succeeds exactly when one of the attempts 0..max_retries-1   *)
(* meets a 2xx response that the validator accepts (any 2xx when there is  *)
(* no validator) after only retried failures; that response is the last    *)
(* thing the call does, after k failures it is the (k+1)-th GET, and the   *)
(* value returned is the body of that response, unchanged.                 *)
C15_FirstAcceptedWins == [](C15_State) /\ [][C15_Step]_vars

C15_Witness ==
    /\ fetch_result[UnitTask].kind = "content"
    /\ fetch_result[UnitTask].content # <<>>
    /\ Count(trace[UnitTask], "get") = 3
    /\ Count(trace[UnitTask], "sleep") = 2

----------------------------------------------------------------------------
IsClean(y) ==
    /\ y # <<>>
    /\ y[1] \notin White /\ y[Len(y)] \notin White
    /\ \A i \in 1..(Len(y) - 1) :
           /\ ~(y[i] \in Blanks /\ y[i + 1] \in Blanks)
           /\ ~(y[i] = "\n" /\ y[i + 1] = "\n")

Plain(x) == \A i \in 1..Len(x) : x[i] \in Chars

(* C16: the text _clean_html returns is never empty, holds no run of two   *)
(* or more spaces or tabs, no two line breaks in a row and no white space  *)
(* at either end; and for a plain x without markup, cleaning the cleaned   *)
(* text again gives the same text: clean(clean(x)) = clean(x).             *)
C16_CleanIsIdempotent ==
    \A p \in Tasks :
        pc[p] = "llm_wait" =>
            /\ IsClean(clean_text[p])
            /\ Plain(raw_data[p]) =>
                   CleanHtml(clean_text[p]) = [ok |-> TRUE, text |-> clean_text[p], step |-> ""]

C16_Witness ==
    LET x == raw_data[UnitTask]
    IN /\ pc[UnitTask] = "llm_wait"
       /\ Len(x) = 4 /\ Plain(x)
       /\ x[2] \in Blanks /\ x[3] \in Blanks
       /\ Len(clean_text[UnitTask]) = 3

----------------------------------------------------------------------------
(* The reason an attempt leaves behind, told from what the attempt met *)
ReasonOfAttempt(resp, what) ==
    IF what = "2xx_raise" THEN "unknown"
    ELSE CASE resp = "404" -> "http_status_404"
           [] resp = "503" -> "http_status_503"
           [] resp = "timeout" -> "timeout"
           [] resp = "connect" -> "connect"
           [] resp = "other" -> "unknown"

(* C17: when every attempt fails retryably, the FetchError that ends the   *)
(* call carries the reason of the last attempt, attempt max_retries - 1,   *)
(* whatever the earlier attempts failed with.                              *)
C17_LastReasonWins ==
    \A p \in Tasks :
        (fetch_result[p].kind = "FetchError" /\ cfg.max_retries >= 1) =>
            LET rs == Resps(trace[p])
                last == rs[Len(rs)]
            IN /\ Len(rs) = cfg.max_retries
               /\ last.n = cfg.max_retries - 1
               /\ Retried(last)
               /\ fetch_result[p].reason = ReasonOfAttempt(last_resp[p], last.what)

C17_Witness ==
    LET sl == Sleeps(trace[UnitTask])
    IN /\ fetch_result[UnitTask].kind = "FetchError"
       /\ Len(sl) = 2
       /\ sl[1].what = "timeout" /\ sl[2].what = "connect"
       /\ fetch_result[UnitTask].reason = "http_status_503"

----------------------------------------------------------------------------
(* Properties of concurrent fetches on the shared fetcher, checked under Spec *)

FetchLocals(p) == <<attempt[p], last_error_reason[p], fetch_result[p], last_resp[p]>>
InFetch(p) == pc[p] \in {"http_wait", "sleep_wait"}

C18_State ==
    \A p \in Tasks :
        /\ Count(trace[p], "get") <= cfg.max_retries
        /\ InFetch(p) => attempt[p] = Count(trace[p], "get") - 1
        /\ fetch_result[p].kind = "FetchError" =>
               LET rs == Resps(trace[p])
               IN /\ Count(trace[p], "get") = cfg.max_retries
                  /\ Len(rs) = cfg.max_retries
                  /\ fetch_result[p].reason =
                         ReasonOfAttempt(last_resp[p], rs[Len(rs)].what)
        /\ \A q \in Tasks \ {p} :
               (pc[q] = "sleep_wait" /\ ~Ended(p)) => ENABLED TaskStep(p)

C18_Step ==
    /\ cfg' = cfg
    /\ \A p \in Tasks :
           (FetchLocals(p)' # FetchLocals(p) \/ Resps(trace[p])' # Resps(trace[p])) =>
               \A q \in Tasks \ {p} : FetchLocals(q)' = FetchLocals(q)

(* C18: the fetches of the batch, running on one shared fetcher, do not    *)
(* interfere.  While one of them sleeps, any other that has not ended can  *)
(* take its next step; the attempt index and the last reason belong to the *)
(* call, and no step of a fetch writes the configuration or the locals of  *)
(* another call; whatever the interleaving, a fetch that exhausts its      *)
(* attempts has made exactly max_retries GETs of its own and reports the   *)
(* reason of its own last attempt.                                         *)
C18_FetchesDoNotInterfere == [](C18_State) /\ [][C18_Step]_vars

C18_Witness ==
    \E p, q \in Tasks :
        /\ pc[p] = "sleep_wait" /\ attempt[p] = 0
        /\ last_error_reason[p] = "timeout"
        /\ fetch_result[q].kind = "FetchError"
        /\ fetch_result[q].reason = "http_status_503"
        /\ Count(trace[q], "get") = cfg.max_retries

----------------------------------------------------------------------------
(* C19: no fetcher in use has max_retries below 1: every fetch that has    *)
(* ended was made with max_retries >= 1 and has issued at least one GET,   *)
(* and a FetchError for exhausted attempts carries a reason that is not    *)
(* empty.                                                                  *)
C19_AtLeastOneAttempt ==
    \A p \in Tasks :
        fetch_result[p].kind # "none" =>
            /\ cfg.max_retries >= 1
            /\ Count(trace[p], "get") >= 1
            /\ fetch_result[p].kind = "FetchError" => fetch_result[p].reason # ""

----------------------------------------------------------------------------
(* C20: an answer that is well-formed JSON but not an object (a number, a  *)
(* string, a boolean, null, an array, also an array that holds the four    *)
(* field names) makes parse fail with stage json_parse: it is never        *)
(* returned as a record and never reported under another stage.            *)
C20_NonObjectIsJsonParse ==
    \A p \in Tasks :
        (Answered(p) /\ llm_out[p].text = "json" /\ llm_out[p].kind # "object") =>
            parse_result[p] = ParseErrorOf("json_parse")

----------------------------------------------------------------------------
EmptyAnswer(p) == Answered(p) /\ llm_out[p].text \in {"empty", "blank"}

(* C21: when the call succeeds and its text is empty or only white space,  *)
(* parse fails with stage llm_request at the emptiness test, before        *)
(* json.loads is reached, and never with stage json_parse or not_news.     *)
C21_EmptyOutputIsLlmRequest ==
    \A p \in Tasks :
        EmptyAnswer(p) =>
            /\ parse_result[p] = ParseErrorOf("llm_request")
            /\ parse_result[p].step \notin {"json_parse", "not_news"}
            /\ trace[p][Len(trace[p])] = Ev("validate", 0, "empty")
            /\ \A k \in 1..Len(trace[p]) : trace[p][k].what # "loads"

C21_Witness ==
    /\ EmptyAnswer(UnitTask)
    /\ llm_out[UnitTask].text = "blank"
    /\ parse_result[UnitTask].step = "llm_request"

====
